---- MODULE Spec2Model ----
(***************************************************************************)
(* A model of cdk-validator-kics (src/plugin.ts): the KicsValidator plugin *)
(* that runs the kics scanner on a set of templates, reads the JSON report *)
(* the scanner leaves in the temporary directory and maps it to a          *)
(* ValidationPluginReport {violations, success}.                           *)
(*                                                                         *)
(* Two host processes run on one machine (one platform, one CPU            *)
(* architecture, one file system).  Each constructs a KicsValidator and    *)
(* calls validate.  validate is synchronous inside its process; the points *)
(* at which another process can be scheduled are modelled as separate      *)
(* steps: before the scanner is spawned, and between the scanner's exit    *)
(* and the read of the report file.                                        *)
(***************************************************************************)
EXTENDS Integers, Sequences, FiniteSets, TLC

(***************************************************************************)
(* Bounds of the model.                                                    *)
(***************************************************************************)
\* validate calls made in one run, over all processes
MaxCalls == 2
\* entries of a report's queries list
MaxQueries == 2
\* entries of each list of KicsValidatorProps
MaxList == 2

Procs == {1, 2}

(***************************************************************************)
(* Generic helpers on sequences.                                           *)
(***************************************************************************)
SeqsUpTo(S, n) == UNION {[1..k -> S] : k \in 0..n}

RECURSIVE FlatMap2(_, _, _)
\* xs.flatMap(x => [flag, x])
FlatMap2(flag, xs, i) ==
    IF i > Len(xs) THEN <<>>
    ELSE <<flag, xs[i]>> \o FlatMap2(flag, xs, i + 1)

(***************************************************************************)
(* The schema of the scanner's report (./private/schema): the Severity and *)
(* QueryCategory enumerations.                                             *)
(***************************************************************************)
Severity == {"HIGH", "MEDIUM", "LOW"}
QueryCategory == {"Encryption", "Observability"}

\* the values the lists of KicsValidatorProps are drawn from
QueryIds == {"q-1", "q-2"}
SevInputs == {"HIGH", "LOW"}

(***************************************************************************)
(* Node's path module, on paths given as sequences of one-character        *)
(* strings.  Inputs contain no drive letter and no backslash; they do not  *)
(* start with two slashes.                                                 *)
(***************************************************************************)
SLASH == "/"

RECURSIVE LastNonSlash(_, _)
\* the largest index i <= n with p[i] # "/", or 0
LastNonSlash(p, n) ==
    IF n = 0 THEN 0
    ELSE IF p[n] # SLASH THEN n ELSE LastNonSlash(p, n - 1)

RECURSIVE LastSlash(_, _)
\* the largest index i <= n with p[i] = "/", or 0
LastSlash(p, n) ==
    IF n = 0 THEN 0
    ELSE IF p[n] = SLASH THEN n ELSE LastSlash(p, n - 1)

\* path.posix.basename(p), no suffix argument
Basename(p) ==
    LET e == LastNonSlash(p, Len(p))
        s == LastSlash(p, e)
    IN  IF e = 0 THEN <<>> ELSE SubSeq(p, s + 1, e)

\* path.posix.dirname(p)
Dirname(p) ==
    IF Len(p) = 0 THEN <<".">>
    ELSE
      LET hasRoot == p[1] = SLASH
          e == LastNonSlash(p, Len(p))
          \* the slash that ends the directory part; never index 1
          s == LastSlash(p, e)
      IN  IF e = 0 \/ s <= 1
            THEN (IF hasRoot THEN <<SLASH>> ELSE <<".">>)
          ELSE IF hasRoot /\ s = 2 THEN <<SLASH, SLASH>>
          ELSE SubSeq(p, 1, s - 1)

RECURSIVE Segments(_, _, _)
\* p.split("/") from index i on, cur being the segment read so far
Segments(p, i, cur) ==
    IF i > Len(p) THEN <<cur>>
    ELSE IF p[i] = SLASH THEN <<cur>> \o Segments(p, i + 1, <<>>)
    ELSE Segments(p, i + 1, Append(cur, p[i]))

RECURSIVE NormalizeSegs(_, _, _, _)
\* normalizeString: drops "" and ".", resolves ".." against res
NormalizeSegs(segs, i, res, allowAboveRoot) ==
    IF i > Len(segs) THEN res
    ELSE
      LET s == segs[i]
      IN  IF s = <<>> \/ s = <<".">>
            THEN NormalizeSegs(segs, i + 1, res, allowAboveRoot)
          ELSE IF s = <<".", ".">>
            THEN IF Len(res) > 0 /\ res[Len(res)] # <<".", ".">>
                   THEN NormalizeSegs(segs, i + 1, SubSeq(res, 1, Len(res) - 1),
                                      allowAboveRoot)
                 ELSE IF allowAboveRoot
                   THEN NormalizeSegs(segs, i + 1, Append(res, s), allowAboveRoot)
                 ELSE NormalizeSegs(segs, i + 1, res, allowAboveRoot)
          ELSE NormalizeSegs(segs, i + 1, Append(res, s), allowAboveRoot)

RECURSIVE JoinSegs(_, _)
\* segs.join("/")
JoinSegs(segs, i) ==
    IF i > Len(segs) THEN <<>>
    ELSE IF i = Len(segs) THEN segs[i]
    ELSE segs[i] \o <<SLASH>> \o JoinSegs(segs, i + 1)

\* path.posix.normalize(p)
Normalize(p) ==
    IF Len(p) = 0 THEN <<".">>
    ELSE
      LET isAbsolute == p[1] = SLASH
          trailingSep == p[Len(p)] = SLASH
          body == JoinSegs(NormalizeSegs(Segments(p, 1, <<>>), 1, <<>>,
                                         ~isAbsolute), 1)
      IN  IF Len(body) = 0
            THEN (IF isAbsolute THEN <<SLASH>>
                  ELSE IF trailingSep THEN <<".", SLASH>> ELSE <<".">>)
            ELSE (IF isAbsolute THEN <<SLASH>> ELSE <<>>) \o body
                 \o (IF trailingSep THEN <<SLASH>> ELSE <<>>)

\* path.posix.join(a, b): the non-empty arguments joined with "/", normalized
PathJoin(a, b) ==
    IF Len(a) = 0 /\ Len(b) = 0 THEN <<".">>
    ELSE IF Len(a) = 0 THEN Normalize(b)
    ELSE IF Len(b) = 0 THEN Normalize(a)
    ELSE Normalize(a \o <<SLASH>> \o b)

\* path.win32 on the inputs above: the posix result with "\" as separator
ToWin32(p) == [i \in 1..Len(p) |-> IF p[i] = SLASH THEN "\\" ELSE p[i]]

\* templatePath: path.join(path.dirname(file_name), path.basename(file_name))
TemplatePath(os, file_name) ==
    LET posix == PathJoin(Dirname(file_name), Basename(file_name))
    IN  IF os = "win32" THEN ToWin32(posix) ELSE posix

(***************************************************************************)
(* KicsValidatorProps: a record that holds the supplied fields only.       *)
(***************************************************************************)
NoProps == <<>>

\* a field that is absent, or present with one of the lists
OptField(name, lists) == {NoProps} \cup {name :> l : l \in lists}

AllProps ==
    {q @@ c @@ s @@ f :
        q \in OptField("excludeQueries", SeqsUpTo(QueryIds, MaxList)),
        c \in OptField("excludeCategories", SeqsUpTo(QueryCategory, MaxList)),
        s \in OptField("excludeSeverities", SeqsUpTo(SevInputs, MaxList)),
        f \in OptField("failureSeverities", SeqsUpTo(SevInputs, MaxList))}

SmallProps ==
    { NoProps,
      [failureSeverities |-> <<"LOW">>],
      [failureSeverities |-> <<>>, excludeSeverities |-> <<"HIGH", "MEDIUM">>] }

(***************************************************************************)
(* The constructor and getArch.                                            *)
(***************************************************************************)
PluginName == "cdk-validator-kics"

\* getArch with every architecture accepted
getArchAny(cpu) ==
    IF cpu = "x64" THEN [threw |-> FALSE, v |-> "amd64"]
    ELSE [threw |-> FALSE, v |-> "arm64"]

\* getArch(): the switch on os.arch()
getArch(cpu) ==
    CASE cpu = "x64" -> [threw |-> FALSE, v |-> "amd64"]
      [] cpu = "arm64" -> [threw |-> FALSE, v |-> "arm64"]
      [] OTHER -> [threw |-> TRUE, error |-> "Architecture is not supported"]

\* os.platform() === 'win32' ? 'windows' : os.platform()
Platform(os) == IF os = "win32" THEN "windows" ELSE os

\* path.join(__dirname, '..', 'bin', `${platform}_${arch}`, kics | kics.exe)
KicsPath(platform, arch) ==
    CASE platform = "windows" /\ arch = "amd64" -> "bin\\windows_amd64\\kics.exe"
      [] platform = "windows" /\ arch = "arm64" -> "bin\\windows_arm64\\kics.exe"
      [] platform = "linux" /\ arch = "amd64" -> "bin/linux_amd64/kics"
      [] platform = "linux" /\ arch = "arm64" -> "bin/linux_arm64/kics"
      [] platform = "darwin" /\ arch = "amd64" -> "bin/darwin_amd64/kics"
      [] platform = "darwin" /\ arch = "arm64" -> "bin/darwin_arm64/kics"

\* the default with MEDIUM forgotten
FailureSeveritiesHighOnly(props) ==
    IF "failureSeverities" \in DOMAIN props
      THEN props.failureSeverities ELSE <<"HIGH">>

\* props.failureSeverities ?? [Severity.HIGH, Severity.MEDIUM]
FailureSeverities(props) ==
    IF "failureSeverities" \in DOMAIN props
      THEN props.failureSeverities ELSE <<"HIGH", "MEDIUM">>

ExcludeFields == {"excludeQueries", "excludeCategories", "excludeSeverities"}

\* the fields of the instance the constructor sets, arch being getArch()'s value
NewKicsValidator(props, os, arch) ==
    [ name |-> PluginName,
      kics |-> KicsPath(Platform(os), arch),
      failureSeverities |-> FailureSeverities(props) ]
    @@ [f \in DOMAIN props \cap ExcludeFields |-> props[f]]

(***************************************************************************)
(* validate: the argument vector.                                          *)
(***************************************************************************)
LibrariesPath(os) ==
    IF os = "win32" THEN "assets\\libraries" ELSE "assets/libraries"
QueriesPath(os) ==
    IF os = "win32" THEN "assets\\queries" ELSE "assets/queries"

\* this.<field> ? this.<field>.flatMap(x => [flag, x]) : []
OptFlags(this, field, flag) ==
    IF field \in DOMAIN this THEN FlatMap2(flag, this[field], 1) ELSE <<>>

\* the vector with excludeSeverities rendered as --fail-on
FlagsConflated(this, os, templatePaths, reportDir) ==
    <<this.kics, "scan">>
    \o FlatMap2("--path", templatePaths, 1)
    \o <<"--output-path", reportDir, "--output-name", this.name,
         "--libraries-path", LibrariesPath(os),
         "--queries-path", QueriesPath(os)>>
    \o FlatMap2("--fail-on", this.failureSeverities, 1)
    \o OptFlags(this, "excludeQueries", "--exclude-queries")
    \o OptFlags(this, "excludeCategories", "--exclude-categories")
    \o OptFlags(this, "excludeSeverities", "--fail-on")
    \o <<"--ci", "--report-formats", "\"json\"">>

\* const flags = [...]
Flags(this, os, templatePaths, reportDir) ==
    <<this.kics, "scan">>
    \o FlatMap2("--path", templatePaths, 1)
    \o <<"--output-path", reportDir, "--output-name", this.name,
         "--libraries-path", LibrariesPath(os),
         "--queries-path", QueriesPath(os)>>
    \o FlatMap2("--fail-on", this.failureSeverities, 1)
    \o OptFlags(this, "excludeQueries", "--exclude-queries")
    \o OptFlags(this, "excludeCategories", "--exclude-categories")
    \o OptFlags(this, "excludeSeverities", "--exclude-severities")
    \o <<"--ci", "--report-formats", "\"json\"">>

(***************************************************************************)
(* The scanner's report: KicsSchema {queries: [{query_name, query_url,     *)
(* description, severity, files: [{file_name, resource_name,               *)
(* search_key}]}]}.  A JavaScript object is a record holding the           *)
(* properties it has; a property it lacks reads as undefined.              *)
(***************************************************************************)
FileA ==
    [ file_name |-> <<"/", "a", "/", "/", "t">>,
      resource_name |-> "BucketA",
      search_key |-> "Resources.BucketA" ]
FileB ==
    [ file_name |-> <<".", "/", "t">>,
      resource_name |-> "QueueB",
      search_key |-> "Resources.QueueB.Properties" ]

QHigh ==
    [ query_name |-> "S3 Bucket Without Versioning",
      query_url |-> "https://docs.kics.io/s3-versioning",
      description |-> "S3 bucket should have versioning enabled",
      severity |-> "HIGH",
      files |-> <<FileA, FileB>> ]
QLow ==
    [ query_name |-> "SQS With SSE Disabled",
      query_url |-> "https://docs.kics.io/sqs-sse",
      description |-> "SQS queue should be encrypted",
      severity |-> "LOW",
      files |-> <<FileB>> ]
\* an entry that has no files property
QBad ==
    [ query_name |-> "IAM Policy Too Permissive",
      query_url |-> "https://docs.kics.io/iam",
      description |-> "IAM policy grants *",
      severity |-> "MEDIUM" ]

Queries == {QHigh, QLow, QBad}

\* the content of a file: text that is JSON (with the value it parses to) or not
JsonText(v) == [json |-> TRUE, value |-> v]
NotJson == [json |-> FALSE]
\* a JSON object without a queries property
NoQueriesKey == JsonText([kics_version |-> "v1.7.0"])

AllTexts ==
    {JsonText([queries |-> qs]) : qs \in SeqsUpTo(Queries, MaxQueries)}
    \cup {NotJson, NoQueriesKey}

SmallTexts ==
    { JsonText([queries |-> <<>>]),
      JsonText([queries |-> <<QLow>>]),
      JsonText([queries |-> <<QHigh, QBad>>]),
      NoQueriesKey,
      NotJson }

\* every entry of the queries list has a files list
WellFormed(text) ==
    /\ text.json
    /\ "queries" \in DOMAIN text.value
    /\ \A i \in 1..Len(text.value.queries) : "files" \in DOMAIN text.value.queries[i]

(***************************************************************************)
(* validate: the mapping of the report (the forEach of lines 102-115).     *)
(***************************************************************************)
\* the violation with the first file match only
ViolationFirstFile(os, query) ==
    [ fix |-> query.query_url,
      ruleName |-> query.query_name,
      description |-> query.description,
      severity |-> query.severity,
      violatingResources |->
        [i \in 1..(IF Len(query.files) > 0 THEN 1 ELSE 0) |->
          [ resourceLogicalId |-> query.files[i].resource_name,
            templatePath |-> TemplatePath(os, query.files[i].file_name),
            locations |-> <<query.files[i].search_key>> ]] ]

\* the object pushed for one query
Violation(os, query) ==
    [ fix |-> query.query_url,
      ruleName |-> query.query_name,
      description |-> query.description,
      severity |-> query.severity,
      violatingResources |->
        [i \in 1..Len(query.files) |->
          [ resourceLogicalId |-> query.files[i].resource_name,
            templatePath |-> TemplatePath(os, query.files[i].file_name),
            locations |-> <<query.files[i].search_key>> ]] ]

\* the callback with success cleared for HIGH and MEDIUM findings only
QueryStepBySeverity(os, acc, query) ==
    IF "files" \notin DOMAIN query
      THEN [acc EXCEPT !.success = FALSE, !.threw = TRUE]
      ELSE [ success |-> acc.success /\ query.severity \notin {"HIGH", "MEDIUM"},
             violations |-> Append(acc.violations, Violation(os, query)),
             threw |-> FALSE ]

\* the forEach callback on one query: success = false, then the push, whose
\* argument throws a TypeError when query.files is undefined
QueryStep(os, acc, query) ==
    IF "files" \notin DOMAIN query
      THEN [acc EXCEPT !.success = FALSE, !.threw = TRUE]
      ELSE [ success |-> FALSE,
             violations |-> Append(acc.violations, Violation(os, query)),
             threw |-> FALSE ]

RECURSIVE ForEachQuery(_, _, _, _)
\* output.queries.forEach(...), from entry i on; stops where the callback throws
ForEachQuery(os, queries, i, acc) ==
    IF i > Len(queries) \/ acc.threw THEN acc
    ELSE ForEachQuery(os, queries, i + 1, QueryStep(os, acc, queries[i]))

(***************************************************************************)
(* The file system, and the scanner process exec spawns.                   *)
(***************************************************************************)
TmpDirs == {"/tmp", "/private/tmp", "/var/scan", "/nonexistent"}

\* fs.realpathSync(dir): /tmp is a symbolic link to /private/tmp, /private/tmp
\* and /var/scan are directories, nothing else exists
Realpath(dir) ==
    CASE dir = "/tmp" -> [threw |-> FALSE, v |-> "/private/tmp"]
      [] dir \in {"/private/tmp", "/var/scan"} -> [threw |-> FALSE, v |-> dir]
      [] OTHER -> [threw |-> TRUE, error |-> "ENOENT"]

\* path.join(reportDir, name) with the temporary directory hard-coded
ReportPathFixedDir(reportDir, name) == <<"/private/tmp", name>>

\* path.join(reportDir, this.name)
ReportPath(reportDir, name) == <<reportDir, name>>

\* `${reportPath}.json`
ReportFile(reportPath) == Append(reportPath, "json")

RECURSIVE FlagValue(_, _, _)
\* the argument that follows the first occurrence of flag, from index i on
FlagValue(flags, flag, i) ==
    IF i >= Len(flags) THEN ""
    ELSE IF flags[i] = flag THEN flags[i + 1]
    ELSE FlagValue(flags, flag, i + 1)

\* the file the scanner writes: <output-path>/<output-name>.json
ScannerTarget(flags) ==
    <<FlagValue(flags, "--output-path", 1), FlagValue(flags, "--output-name", 1),
      "json">>

\* the file system after file is written at path
WriteFile(fs, path, file) ==
    [x \in DOMAIN fs \cup {path} |-> IF x = path THEN file ELSE fs[x]]

NoFile == [exists |-> FALSE]

\* fs.readFileSync(path) as the file read, NoFile when it throws ENOENT
ReadFile(fs, path) == IF path \in DOMAIN fs THEN fs[path] ELSE NoFile

\* exec(flags) returns or throws
ExecOutcomes == {"returned", "raised"}

\* where validate goes after exec when the try block holds the exec call only
AfterExecReadAnyway(outcome) == "read"

\* where validate goes after exec: on to the read, or to the catch clause
AfterExec(outcome) == IF outcome = "raised" THEN "catch" ELSE "read"

\* lines 99-120: the rest of the try block once exec has returned, and the
\* catch clause; local holds success and violations as they are before it
ReadAndMap(os, fs, local) ==
    LET file == ReadFile(fs, ReportFile(local.reportPath))
        caught(evs) == [ success |-> FALSE, violations |-> local.violations,
                         events |-> evs \o <<"catch">>, file |-> file ]
    IN  IF ~file.exists THEN caught(<<"read">>)
        ELSE IF ~file.text.json THEN caught(<<"read", "parse">>)
        ELSE IF "queries" \notin DOMAIN file.text.value
          THEN caught(<<"read", "parse", "map">>)
        ELSE
          LET r == ForEachQuery(os, file.text.value.queries, 1,
                                [ success |-> local.success,
                                  violations |-> local.violations,
                                  threw |-> FALSE ])
          IN  [ success |-> IF r.threw THEN FALSE ELSE r.success,
                violations |-> r.violations,
                events |-> <<"read", "parse", "map">>
                           \o (IF r.threw THEN <<"catch">> ELSE <<>>),
                file |-> file ]

(***************************************************************************)
(* The state.                                                              *)
(***************************************************************************)
VARIABLES
    os,        \* os.platform() of the machine
    cpu,       \* os.arch() of the machine
    tmpdir,    \* tmpdir[p]: os.tmpdir() in process p
    props,     \* props[p]: the props process p gives the constructor
    pc,        \* pc[p]: where process p is
    this,      \* this[p]: the KicsValidator of process p
    local,     \* local[p]: the local variables of the validate call in progress
    result,    \* result[p]: what the last validate call of p returned
    err,       \* err[p]: the exception that escaped to the host of p
    disk,      \* the files, by path
    ncalls,    \* the number of validate calls made so far
    call,      \* call[p]: the history of the current or last validate call of p
    scanned    \* the files as the scanner processes alone have left them

vars == <<os, cpu, tmpdir, props, pc, this, local, result, err, disk, ncalls,
          call, scanned>>

None == [none |-> TRUE]

Hosts ==
    { [os |-> "linux", cpu |-> "x64"],
      [os |-> "win32", cpu |-> "arm64"],
      [os |-> "darwin", cpu |-> "ia32"] }

Contexts ==
    { <<"cdk.out/A.template.json">>,
      <<"cdk.out/A.template.json", "cdk.out/B.template.json">> }

InitCommon ==
    /\ \E h \in Hosts : os = h.os /\ cpu = h.cpu
    /\ pc = [p \in Procs |-> "start"]
    /\ this = [p \in Procs |-> None]
    /\ local = [p \in Procs |-> None]
    /\ result = [p \in Procs |-> None]
    /\ err = [p \in Procs |-> None]
    /\ disk = <<>>
    /\ scanned = <<>>
    /\ ncalls = 0
    /\ call = [p \in Procs |-> None]

\* two processes, a few configurations; the temporary directories of the two
\* are the same directory, the same through the symbolic link, two
\* directories, or one that does not exist
Init ==
    /\ InitCommon
    /\ tmpdir \in {t \in [Procs -> TmpDirs] : t[2] \in {"/private/tmp", "/var/scan"}}
    /\ \E c \in SmallProps : props = [p \in Procs |-> IF p = 1 THEN c ELSE NoProps]

\* one process, one call, every report the bounds allow
InitMap ==
    /\ InitCommon
    /\ \E d \in TmpDirs : tmpdir = [p \in Procs |-> IF p = 1 THEN d ELSE "/tmp"]
    /\ \E c \in SmallProps : props = [p \in Procs |-> IF p = 1 THEN c ELSE NoProps]

\* one process, every configuration the bounds allow
InitArgs ==
    /\ InitCommon
    /\ tmpdir = [p \in Procs |-> "/tmp"]
    /\ \E c \in AllProps : props = [p \in Procs |-> IF p = 1 THEN c ELSE NoProps]

(***************************************************************************)
(* new KicsValidator(props), lines 64-75.                                  *)
(***************************************************************************)
Construct(p) ==
    /\ pc[p] = "start"
    /\ ~getArch(cpu).threw
    /\ this' = [this EXCEPT ![p] = NewKicsValidator(props[p], os, getArch(cpu).v)]
    /\ pc' = [pc EXCEPT ![p] = "idle"]
    /\ UNCHANGED <<os, cpu, tmpdir, props, local, result, err, disk, ncalls,
                   call, scanned>>

ConstructThrows(p) ==
    /\ pc[p] = "start"
    /\ getArch(cpu).threw
    /\ pc' = [pc EXCEPT ![p] = "ctor-threw"]
    /\ err' = [err EXCEPT ![p] = [in |-> "constructor", error |-> getArch(cpu).error]]
    /\ UNCHANGED <<os, cpu, tmpdir, props, this, local, result, disk, ncalls,
                   call, scanned>>

(***************************************************************************)
(* validate(context), lines 77-96: the report directory, the argument      *)
(* vector, success and violations.  Nothing here is inside the try block.  *)
(***************************************************************************)
ValidateBegin(p, contexts, budget) ==
    /\ pc[p] = "idle"
    /\ ncalls < budget
    /\ ~Realpath(tmpdir[p]).threw
    /\ \E templatePaths \in contexts :
         LET reportDir == Realpath(tmpdir[p]).v
         IN  /\ local' = [local EXCEPT ![p] =
                   [ reportDir |-> reportDir,
                     reportPath |-> ReportPath(reportDir, this[p].name),
                     flags |-> Flags(this[p], os, templatePaths, reportDir),
                     success |-> TRUE,
                     violations |-> <<>> ]]
             /\ call' = [call EXCEPT ![p] =
                   [ id |-> ncalls + 1, dir |-> reportDir, events |-> <<"args">>,
                     outcome |-> "none", wrote |-> FALSE, read |-> NoFile ]]
    /\ pc' = [pc EXCEPT ![p] = "exec"]
    /\ ncalls' = ncalls + 1
    /\ UNCHANGED <<os, cpu, tmpdir, props, this, result, err, disk, scanned>>

ValidateBeginThrows(p, budget) ==
    /\ pc[p] = "idle"
    /\ ncalls < budget
    /\ Realpath(tmpdir[p]).threw
    /\ pc' = [pc EXCEPT ![p] = "threw"]
    /\ err' = [err EXCEPT ![p] = [in |-> "validate", error |-> Realpath(tmpdir[p]).error]]
    /\ ncalls' = ncalls + 1
    /\ UNCHANGED <<os, cpu, tmpdir, props, this, local, result, disk, call,
                   scanned>>

(***************************************************************************)
(* Line 98, exec(flags): the scanner runs to its end.  It writes a report  *)
(* at the place the flags name, or none; exec returns or throws.  When it  *)
(* throws, the catch clause runs and validate returns.                     *)
(***************************************************************************)
ValidateExec(p, texts) ==
    /\ pc[p] = "exec"
    /\ \E outcome \in ExecOutcomes, write \in BOOLEAN, text \in texts :
         LET file == [ exists |-> TRUE, text |-> text,
                       by |-> [id |-> call[p].id, dir |-> local[p].reportDir] ]
             target == ScannerTarget(local[p].flags)
             next == AfterExec(outcome)
         IN  /\ disk' = IF write THEN WriteFile(disk, target, file) ELSE disk
             /\ scanned' = IF write THEN WriteFile(scanned, target, file)
                           ELSE scanned
             /\ IF next = "catch"
                  THEN /\ result' = [result EXCEPT ![p] =
                             [violations |-> local[p].violations, success |-> FALSE]]
                       /\ pc' = [pc EXCEPT ![p] = "idle"]
                       /\ local' = [local EXCEPT ![p] = None]
                       /\ call' = [call EXCEPT ![p].outcome = outcome,
                                               ![p].wrote = write,
                                               ![p].events = @ \o <<"spawn", "catch", "return">>]
                  ELSE /\ pc' = [pc EXCEPT ![p] = next]
                       /\ call' = [call EXCEPT ![p].outcome = outcome,
                                               ![p].wrote = write,
                                               ![p].events = @ \o <<"spawn">>]
                       /\ UNCHANGED <<result, local>>
    /\ UNCHANGED <<os, cpu, tmpdir, props, this, err, ncalls>>

(***************************************************************************)
(* Lines 99-124: the report is read, parsed and mapped, and validate        *)
(* returns.  The file is left as it is.                                    *)
(***************************************************************************)
ValidateRead(p) ==
    /\ pc[p] = "read"
    /\ LET r == ReadAndMap(os, disk, local[p])
       IN  /\ result' = [result EXCEPT ![p] =
                 [violations |-> r.violations, success |-> r.success]]
           /\ call' = [call EXCEPT ![p].read = r.file,
                                   ![p].events = @ \o r.events \o <<"return">>]
    /\ pc' = [pc EXCEPT ![p] = "idle"]
    /\ local' = [local EXCEPT ![p] = None]
    /\ UNCHANGED <<os, cpu, tmpdir, props, this, err, disk, ncalls, scanned>>

Next ==
    \E p \in Procs :
        \/ Construct(p)
        \/ ConstructThrows(p)
        \/ ValidateBegin(p, Contexts, MaxCalls)
        \/ ValidateBeginThrows(p, MaxCalls)
        \/ ValidateExec(p, SmallTexts)
        \/ ValidateRead(p)

Spec == Init /\ [][Next]_vars

\* process 1 alone: one validate call on any report
NextMap ==
    \/ Construct(1)
    \/ ConstructThrows(1)
    \/ ValidateBegin(1, Contexts, 1)
    \/ ValidateBeginThrows(1, 1)
    \/ ValidateExec(1, AllTexts)
    \/ ValidateRead(1)

SpecMap == InitMap /\ [][NextMap]_vars

\* process 1 alone: the constructor, and validate up to the argument vector
NextArgs ==
    \/ Construct(1)
    \/ ConstructThrows(1)
    \/ ValidateBegin(1, Contexts, 1)

SpecArgs == InitArgs /\ [][NextArgs]_vars

(***************************************************************************)
(* The properties.                                                         *)
(***************************************************************************)
Range(f) == {f[i] : i \in DOMAIN f}

\* a validate call of p has returned; result[p] and call[p] are that call's
Returned(p) == pc[p] = "idle" /\ result[p] # None

\* the scanner ran and returned, and the report read holds a queries list
ReadQueries(p) ==
    /\ call[p].outcome = "returned"
    /\ call[p].read.exists
    /\ call[p].read.text.json
    /\ "queries" \in DOMAIN call[p].read.text.value

RECURSIVE ValuesAfter(_, _, _)
\* the arguments that follow the occurrences of flag, in order, from index i on
ValuesAfter(flags, flag, i) ==
    IF i > Len(flags) THEN <<>>
    ELSE IF flags[i] # flag THEN ValuesAfter(flags, flag, i + 1)
    ELSE IF i = Len(flags) THEN <<"(nothing)">>
    ELSE <<flags[i + 1]>> \o ValuesAfter(flags, flag, i + 2)

\* the list of a props field, empty when the field is absent
ListOf(c, field) == IF field \in DOMAIN c THEN c[field] ELSE <<>>

\* C1: a returned call has success = true exactly when exec returned, the
\* report was read and parsed and its queries list is empty; and success =
\* true comes with no violations.
C1_SuccessIffEmptyReport ==
    \A p \in Procs : Returned(p) =>
        /\ result[p].success <=>
             (ReadQueries(p) /\ call[p].read.text.value.queries = <<>>)
        /\ result[p].success => result[p].violations = <<>>

\* a LOW finding alone fails a call under the default failureSeverities
C1_Witness ==
    \E p \in Procs :
        /\ Returned(p)
        /\ ReadQueries(p)
        /\ call[p].read.text.value.queries = <<QLow>>
        /\ "failureSeverities" \notin DOMAIN props[p]
        /\ ~result[p].success

\* C2: a returned call in which exec, the read, the parse or the mapping
\* threw returns {violations: [], success: false}.
C2_ErrorsReturnNoViolations ==
    \A p \in Procs : Returned(p) /\ "catch" \in Range(call[p].events) =>
        result[p] = [violations |-> <<>>, success |-> FALSE]

\* C3: no exception escapes a validate call.
C3_NoExceptionEscapes ==
    \A p \in Procs : pc[p] # "threw"

\* C4: when the report read conforms to the schema, the violations are the
\* image of its queries, entry by entry and file match by file match.
C4_ViolationsMirrorQueries ==
    \A p \in Procs :
        Returned(p) /\ ReadQueries(p) /\ WellFormed(call[p].read.text) =>
            LET qs == call[p].read.text.value.queries
                vs == result[p].violations
            IN  /\ Len(vs) = Len(qs)
                /\ \A i \in 1..Len(qs) :
                     /\ vs[i].fix = qs[i].query_url
                     /\ vs[i].ruleName = qs[i].query_name
                     /\ vs[i].description = qs[i].description
                     /\ vs[i].severity = qs[i].severity
                     /\ Len(vs[i].violatingResources) = Len(qs[i].files)
                     /\ \A j \in 1..Len(qs[i].files) :
                          /\ vs[i].violatingResources[j].resourceLogicalId
                               = qs[i].files[j].resource_name
                          /\ vs[i].violatingResources[j].locations
                               = <<qs[i].files[j].search_key>>

\* two different findings were mapped, the first with two file matches
C4_Witness ==
    /\ Returned(1)
    /\ ReadQueries(1)
    /\ call[1].read.text.value.queries = <<QHigh, QLow>>
    /\ Len(result[1].violations) = 2

\* C5: every exclusion list is rendered as its own flag, once per entry in
\* input order, nothing when absent or empty; the --fail-on flags carry the
\* failure severities of the instance and nothing else.
C5_ExcludeFlags ==
    pc[1] = "exec" =>
        LET flags == local[1].flags
        IN  /\ ValuesAfter(flags, "--exclude-queries", 1)
                 = ListOf(props[1], "excludeQueries")
            /\ ValuesAfter(flags, "--exclude-categories", 1)
                 = ListOf(props[1], "excludeCategories")
            /\ ValuesAfter(flags, "--exclude-severities", 1)
                 = ListOf(props[1], "excludeSeverities")
            /\ ValuesAfter(flags, "--fail-on", 1) = this[1].failureSeverities

\* two excluded severities, one failure severity, two queries, no categories
C5_Witness ==
    /\ pc[1] = "exec"
    /\ props[1] = [ excludeSeverities |-> <<"HIGH", "LOW">>,
                    failureSeverities |-> <<"LOW">>,
                    excludeQueries |-> <<"q-2", "q-1">> ]
    /\ Len(local[1].flags) > 0

\* C6: without failureSeverities the --fail-on flags are HIGH then MEDIUM;
\* with it they are its entries, in order.
C6_FailOnFlags ==
    pc[1] = "exec" =>
        ValuesAfter(local[1].flags, "--fail-on", 1)
          = (IF "failureSeverities" \in DOMAIN props[1]
               THEN props[1].failureSeverities ELSE <<"HIGH", "MEDIUM">>)

\* the default was rendered
C6_Witness ==
    /\ pc[1] = "exec"
    /\ "failureSeverities" \notin DOMAIN props[1]
    /\ "excludeSeverities" \in DOMAIN props[1]
    /\ ValuesAfter(local[1].flags, "--fail-on", 1) = <<"HIGH", "MEDIUM">>

\* C7: on a CPU other than x64 and arm64 every construction throws: there is
\* no instance and no validate call; on x64 and arm64 no construction throws,
\* and what escapes validate is never the architecture error.
C7_ArchitectureAtConstruction ==
    /\ cpu \notin {"x64", "arm64"} =>
         /\ ncalls = 0
         /\ \A p \in Procs :
              this[p] = None /\ call[p] = None /\ pc[p] \in {"start", "ctor-threw"}
    /\ cpu \in {"x64", "arm64"} => \A p \in Procs : pc[p] # "ctor-threw"
    /\ \A p \in Procs :
         err[p] # None /\ err[p].in = "validate" => err[p].error # "Architecture is not supported"

\* every construction on an ia32 host has thrown
C7_Witness ==
    /\ cpu = "ia32"
    /\ \A p \in Procs : pc[p] = "ctor-threw" /\ err[p].in = "constructor"

Rank(e) ==
    CASE e = "args" -> 1 [] e = "spawn" -> 2 [] e = "read" -> 3
      [] e = "parse" -> 4 [] e = "map" -> 5 [] e = "catch" -> 6
      [] e = "return" -> 7

\* C8: the steps of a call happen in the order arguments, spawn, read, parse,
\* map; the spawn happens once, the read at most once and only when exec
\* returned; the files are as the scanner processes left them.
C8_StepsInOrder ==
    /\ disk = scanned
    /\ \A p \in Procs : call[p] # None =>
         LET evs == call[p].events
         IN  /\ evs[1] = "args"
             /\ \A i \in 1..(Len(evs) - 1) : Rank(evs[i]) < Rank(evs[i + 1])
             /\ pc[p] # "exec" => Len(evs) >= 2 /\ evs[2] = "spawn"
             /\ "read" \in Range(evs) => call[p].outcome = "returned"
             /\ "parse" \in Range(evs) => "read" \in Range(evs)
             /\ "map" \in Range(evs) => "parse" \in Range(evs)
             /\ call[p].outcome = "raised" =>
                  call[p].read = NoFile /\ "catch" \in Range(evs)

\* both outcomes: a call that went through every step, one whose exec threw
C8_Witness ==
    /\ Returned(1) /\ Returned(2)
    /\ call[1].events = <<"args", "spawn", "read", "parse", "map", "return">>
    /\ call[2].events = <<"args", "spawn", "catch", "return">>
    /\ call[2].wrote
    /\ call[1].read.by.id = call[2].id

\* C9: the report is <real temporary directory>/cdk-validator-kics.json in
\* every call, for the scanner and for the read; a report a call reads was
\* written by a scan with the same output directory.
C9_FixedReportPath ==
    /\ \A path \in DOMAIN disk : path[2] = "cdk-validator-kics" /\ path[3] = "json"
    /\ \A p \in Procs :
         /\ pc[p] \in {"exec", "read"} =>
              /\ local[p].reportPath
                   = <<Realpath(tmpdir[p]).v, "cdk-validator-kics">>
              /\ ScannerTarget(local[p].flags) = ReportFile(local[p].reportPath)
         /\ call[p] # None /\ call[p].read.exists =>
              /\ call[p].read.by.dir = call[p].dir
              /\ call[p].dir = Realpath(tmpdir[p]).v

\* the collision: p's scanner wrote a report, q's scanner, started while p's
\* call was in flight, overwrote it, and p returned q's findings
C9_Witness ==
    \E p, q \in Procs :
        /\ p # q
        /\ Returned(p)
        /\ pc[q] = "read"
        /\ call[p].id < call[q].id
        /\ call[p].wrote
        /\ call[p].read.exists
        /\ call[p].read.by.id = call[q].id
        /\ result[p].violations # <<>>

\* C10: with one process making calls one after the other, a call whose
\* scanner returned without writing a report returns {violations: [],
\* success: false}.
C10_NoStaleFindings ==
    \A p \in Procs :
        ( /\ Returned(p)
          /\ \A q \in Procs \ {p} : call[q] = None
          /\ call[p].outcome = "returned"
          /\ ~call[p].wrote )
        => result[p] = [violations |-> <<>>, success |-> FALSE]

====
